---- MODULE Spec2Model ----
(***************************************************************************)
(* LAMMPS top-level class (src/src/lammps.cpp): the constructor            *)
(* LAMMPS::LAMMPS (command-line switches, universe/world partitioning,     *)
(* screen and log files, accelerator selection), the lifecycle methods     *)
(* create()/post_create()/init()/destroy() and the destructor.             *)
(*                                                                         *)
(* One LAMMPS instance runs on every MPI process of the pool.  Each        *)
(* instance is the record lmp[p]; the calls a method makes, in the order   *)
(* it makes them, are appended to lmp[p].log.                              *)
(***************************************************************************)
EXTENDS Integers, Sequences, FiniteSets, TLC

VARIABLES
  arg,          \* char **arg: the argument vector, the same on every process
  nprocs,       \* size of the communicator handed to the constructor
  cuda_exists,  \* Cuda::cuda_exists: whether USER-CUDA is compiled in
  unopenable,   \* the file names on which fopen() returns NULL
  lmp           \* lmp[p]: the LAMMPS instance of pool rank p

vars == <<arg, nprocs, cuda_exists, unopenable, lmp>>

-----------------------------------------------------------------------------
(* Bounds of the model.                                                    *)

MaxProcs == 3           \* pool sizes 1..MaxProcs
MaxOps == 3             \* driver calls of create()/init()/destroy() per instance
SplitProcs == 8         \* pool sizes of the partition-only runs
SplitSize == 3          \* largest world size of the partition-only runs
SplitWorlds == 4        \* most worlds of the partition-only runs

-----------------------------------------------------------------------------
(* Values.                                                                 *)

NULL == "NULL"
stdout == "stdout"
stdin == "stdin"

\* one call recorded in a log: what was called, on what, with what
Ev(op, a, b) == [op |-> op, a |-> a, b |-> b]

\* the tokens of the argument vectors whose first character is '-'
DashTokens ==
  { "-partition", "-p", "-in", "-i", "-screen", "-sc", "-log", "-l",
    "-var", "-v", "-echo", "-e", "-pscreen", "-ps", "-plog", "-pl",
    "-cuda", "-c", "-suffix", "-sf", "-reorder", "-r", "-nocite", "-nc",
    "-help", "-h", "-bogus" }

\* arg[iarg][0] != '-'
NotDash(tok) == tok \notin DashTokens

\* C indexing of the argument vector: arg[0] is the program name
narg == Len(arg)
Arg(i) == arg[i + 1]

\* atoi() on a decimal token
atoi(str) ==
  IF \E n \in 0..99 : ToString(n) = str
  THEN CHOOSE n \in 0..99 : ToString(n) = str
  ELSE 0

\* sprintf(str,"%s.%d",name,iworld)
DotName(name, iworld) == name \o "." \o ToString(iworld)

RECURSIVE SumSeq(_)
SumSeq(s) == IF s = <<>> THEN 0 ELSE Head(s) + SumSeq(Tail(s))

Procs == 0 .. (nprocs - 1)

-----------------------------------------------------------------------------
(* Error (error.h): the class is a collaborator; its calls are recorded    *)
(* and the fatal ones end the calling process.                             *)

Fatal(L, scope, msg) ==
  [L EXCEPT !.pc = "failed", !.log = Append(@, Ev("fatal", scope, msg))]

Warn(L, scope, msg) ==
  [L EXCEPT !.log = Append(@, Ev("warning", scope, msg))]

Message(L, msg) ==
  [L EXCEPT !.log = Append(@, Ev("message", "message", msg))]

\* a later statement of a method runs only if no fatal call ended the process
Then(L, F(_)) == IF L.pc # "ctor" THEN L ELSE F(L)

-----------------------------------------------------------------------------
(* Universe (universe.h): constructor, add_world(), consistent(),          *)
(* reorder().                                                              *)

Universe(me) ==
  [ me |-> me, nprocs |-> nprocs, uworld |-> "uworld",
    uscreen |-> stdout, ulogfile |-> NULL,
    existflag |-> 0, nworlds |-> 0, iworld |-> 0,
    procs_per_world |-> <<>>, root_proc |-> <<>>, reorderflag |-> 0 ]

add_world(U, str) ==
  LET nper == IF str = NULL THEN U.nprocs ELSE atoi(str)
      root == IF U.nworlds = 0 THEN 0
              ELSE U.root_proc[U.nworlds] + U.procs_per_world[U.nworlds]
  IN  [U EXCEPT !.procs_per_world = Append(@, nper),
                !.root_proc = Append(@, root),
                !.iworld = IF U.me >= root THEN U.nworlds ELSE @,
                !.nworlds = @ + 1]

consistent(U) == SumSeq(U.procs_per_world) = U.nprocs

reorder(U, style, n) == [U EXCEPT !.reorderflag = 1]

-----------------------------------------------------------------------------
(* LAMMPS::LAMMPS, lines 65-89: fundamental classes and switch defaults.   *)

UNINIT == "uninitialized"   \* a member no statement has assigned yet
DELETED == "deleted"        \* a pointer whose object has been deleted

NewLammps(p) ==
  [ pc |-> "ctor",
    universe |-> Universe(p),
    screen |-> NULL, logfile |-> NULL, infile |-> UNINIT, world |-> UNINIT,
    me |-> 0,
    inflag |-> 0, screenflag |-> 0, logflag |-> 0,
    partscreenflag |-> 0, partlogflag |-> 0,
    cudaflag |-> -1, citeflag |-> 1, helpflag |-> 0,
    suffix |-> NULL, suffix_enable |-> 0,
    iarg |-> 1,
    cuda |-> UNINIT, citeme |-> UNINIT, input |-> UNINIT,
    comm |-> UNINIT, neighbor |-> UNINIT, domain |-> UNINIT, atom |-> UNINIT,
    group |-> UNINIT, force |-> UNINIT, modify |-> UNINIT, output |-> NULL,
    update |-> UNINIT, timer |-> UNINIT,
    nops |-> 0,
    log |-> << Ev("new", "memory", "Memory"), Ev("new", "error", "Error"),
               Ev("new", "universe", "Universe") >> ]

-----------------------------------------------------------------------------
(* LAMMPS::LAMMPS, lines 89-180: parse input switches.                     *)

InvalidArg(L) == Fatal(L, "universe_all", "Invalid command-line argument")

\* lines 97-100: the world sizes that follow -partition
RECURSIVE PartitionWorlds(_)
PartitionWorlds(L) ==
  IF L.iarg < narg /\ NotDash(Arg(L.iarg))
  THEN PartitionWorlds([L EXCEPT !.universe = add_world(@, Arg(L.iarg)),
                                 !.iarg = @ + 1])
  ELSE L

\* line 124: the values that follow -var name
RECURSIVE VarValues(_)
VarValues(L) ==
  IF L.iarg < narg /\ NotDash(Arg(L.iarg))
  THEN VarValues([L EXCEPT !.iarg = @ + 1])
  ELSE L

\* variant: -reorder is applied whether or not -partition came first
ReorderSwitch_NoCheck(L) ==
  IF L.iarg + 3 > narg THEN InvalidArg(L)
  ELSE [L EXCEPT !.universe = reorder(@, Arg(L.iarg + 1), Arg(L.iarg + 2)),
                 !.log = Append(@, Ev("reorder", Arg(L.iarg + 1), Arg(L.iarg + 2))),
                 !.iarg = @ + 3]

\* lines 160-167
ReorderSwitch(L) ==
  IF L.iarg + 3 > narg THEN InvalidArg(L)
  ELSE IF L.universe.existflag # 0
  THEN Fatal(L, "universe_all", "Cannot use -reorder after -partition")
  ELSE [L EXCEPT !.universe = reorder(@, Arg(L.iarg + 1), Arg(L.iarg + 2)),
                 !.log = Append(@, Ev("reorder", Arg(L.iarg + 1), Arg(L.iarg + 2))),
                 !.iarg = @ + 3]

\* lines 142-149
CudaSwitch(L) ==
  IF L.iarg + 2 > narg THEN InvalidArg(L)
  ELSE IF Arg(L.iarg + 1) = "on" THEN [L EXCEPT !.cudaflag = 1, !.iarg = @ + 2]
  ELSE IF Arg(L.iarg + 1) = "off" THEN [L EXCEPT !.cudaflag = 0, !.iarg = @ + 2]
  ELSE InvalidArg(L)

\* one pass of the while loop of line 90
ParseSwitch(L) ==
  LET a == Arg(L.iarg) IN
  IF a = "-partition" \/ a = "-p" THEN
    LET X == [L EXCEPT !.universe.existflag = 1] IN
    IF L.iarg + 2 > narg THEN InvalidArg(X)
    ELSE PartitionWorlds([X EXCEPT !.iarg = @ + 1])
  ELSE IF a = "-in" \/ a = "-i" THEN
    IF L.iarg + 2 > narg THEN InvalidArg(L)
    ELSE [L EXCEPT !.inflag = L.iarg + 1, !.iarg = @ + 2]
  ELSE IF a = "-screen" \/ a = "-sc" THEN
    IF L.iarg + 2 > narg THEN InvalidArg(L)
    ELSE [L EXCEPT !.screenflag = L.iarg + 1, !.iarg = @ + 2]
  ELSE IF a = "-log" \/ a = "-l" THEN
    IF L.iarg + 2 > narg THEN InvalidArg(L)
    ELSE [L EXCEPT !.logflag = L.iarg + 1, !.iarg = @ + 2]
  ELSE IF a = "-var" \/ a = "-v" THEN
    IF L.iarg + 3 > narg THEN InvalidArg(L)
    ELSE VarValues([L EXCEPT !.iarg = @ + 3])
  ELSE IF a = "-echo" \/ a = "-e" THEN
    IF L.iarg + 2 > narg THEN InvalidArg(L)
    ELSE [L EXCEPT !.iarg = @ + 2]
  ELSE IF a = "-pscreen" \/ a = "-ps" THEN
    IF L.iarg + 2 > narg THEN InvalidArg(L)
    ELSE [L EXCEPT !.partscreenflag = L.iarg + 1, !.iarg = @ + 2]
  ELSE IF a = "-plog" \/ a = "-pl" THEN
    IF L.iarg + 2 > narg THEN InvalidArg(L)
    ELSE [L EXCEPT !.partlogflag = L.iarg + 1, !.iarg = @ + 2]
  ELSE IF a = "-cuda" \/ a = "-c" THEN CudaSwitch(L)
  ELSE IF a = "-suffix" \/ a = "-sf" THEN
    IF L.iarg + 2 > narg THEN InvalidArg(L)
    ELSE [L EXCEPT !.suffix = Arg(L.iarg + 1), !.suffix_enable = 1,
                   !.iarg = @ + 2]
  ELSE IF a = "-reorder" \/ a = "-r" THEN ReorderSwitch(L)
  ELSE IF a = "-nocite" \/ a = "-nc" THEN
    [L EXCEPT !.citeflag = 0, !.iarg = @ + 1]
  ELSE IF a = "-help" \/ a = "-h" THEN
    IF L.iarg + 1 > narg THEN InvalidArg(L)
    ELSE [L EXCEPT !.helpflag = 1, !.citeflag = 0, !.iarg = @ + 1]
  ELSE InvalidArg(L)

RECURSIVE ParseSwitches(_)
ParseSwitches(L) ==
  IF L.pc = "ctor" /\ L.iarg < narg
  THEN ParseSwitches(ParseSwitch(L))
  ELSE L

-----------------------------------------------------------------------------
(* LAMMPS::LAMMPS, lines 182-204: the universe of worlds is validated.     *)

\* line 184: no -partition switch, the universe is one world of all procs
DefaultWorld(L) ==
  IF L.universe.existflag = 0
  THEN [L EXCEPT !.universe = add_world(@, NULL)]
  ELSE L

\* variant: only an oversubscribed pool is refused
CheckConsistent_Over(L) ==
  IF SumSeq(L.universe.procs_per_world) > L.universe.nprocs
  THEN Fatal(L, "universe_all", "Processor partitions are inconsistent")
  ELSE L

\* lines 188-189
CheckConsistent(L) ==
  IF ~consistent(L.universe)
  THEN Fatal(L, "universe_all", "Processor partitions are inconsistent")
  ELSE L

\* variant: the input script is demanded only of two or more worlds
CheckInput_Multi(L) ==
  IF L.universe.nworlds > 1 /\ L.inflag = 0
  THEN Fatal(L, "universe_all", "Must use -in switch with multiple partitions")
  ELSE L

\* lines 193-194
CheckInput(L) ==
  IF L.universe.existflag # 0 /\ L.inflag = 0
  THEN Fatal(L, "universe_all", "Must use -in switch with multiple partitions")
  ELSE L

\* lines 198-199
CheckPartScreen(L) ==
  IF L.universe.existflag = 0 /\ L.partscreenflag # 0
  THEN Fatal(L, "universe_all", "Can only use -pscreen with multiple partitions")
  ELSE L

\* lines 203-204
CheckPartLog(L) ==
  IF L.universe.existflag = 0 /\ L.partlogflag # 0
  THEN Fatal(L, "universe_all", "Can only use -plog with multiple partitions")
  ELSE L

CheckUniverse(L) ==
  Then(Then(Then(Then(DefaultWorld(L), CheckConsistent), CheckInput),
            CheckPartScreen), CheckPartLog)

-----------------------------------------------------------------------------
(* fopen(): NULL on a name that cannot be opened, else the stream, which   *)
(* is named after its file.                                                *)

fopen(name) == IF name \in unopenable THEN NULL ELSE name

Opened(L, name) ==
  [L EXCEPT !.log = Append(@, Ev("fopen", name, fopen(name)))]

-----------------------------------------------------------------------------
(* LAMMPS::LAMMPS, lines 206-237: universe screen and logfile.             *)

\* lines 209-217, on universe proc 0
UniverseScreen(L) ==
  IF L.screenflag = 0 THEN [L EXCEPT !.universe.uscreen = stdout]
  ELSE IF Arg(L.screenflag) = "none" THEN [L EXCEPT !.universe.uscreen = NULL]
  ELSE LET X == [Opened(L, Arg(L.screenflag))
                   EXCEPT !.universe.uscreen = fopen(Arg(L.screenflag))]
       IN  IF X.universe.uscreen = NULL
           THEN Fatal(X, "universe_one", "Cannot open universe screen file")
           ELSE X

\* variant: a log.lammps that cannot be opened is fatal
UniverseLog_Fatal(L) ==
  IF L.logflag = 0 THEN
    IF L.helpflag = 0 THEN
      LET X == [Opened(L, "log.lammps")
                  EXCEPT !.universe.ulogfile = fopen("log.lammps")]
      IN  IF X.universe.ulogfile = NULL
          THEN Fatal(X, "universe_one", "Cannot open log.lammps for writing")
          ELSE X
    ELSE L
  ELSE IF Arg(L.logflag) = "none" THEN [L EXCEPT !.universe.ulogfile = NULL]
  ELSE LET X == [Opened(L, Arg(L.logflag))
                   EXCEPT !.universe.ulogfile = fopen(Arg(L.logflag))]
       IN  IF X.universe.ulogfile = NULL
           THEN Fatal(X, "universe_one", "Cannot open universe log file")
           ELSE X

\* lines 218-230, on universe proc 0
UniverseLog(L) ==
  IF L.logflag = 0 THEN
    IF L.helpflag = 0 THEN
      LET X == [Opened(L, "log.lammps")
                  EXCEPT !.universe.ulogfile = fopen("log.lammps")]
      IN  IF X.universe.ulogfile = NULL
          THEN Warn(X, "universe_warn", "Cannot open log.lammps for writing")
          ELSE X
    ELSE L
  ELSE IF Arg(L.logflag) = "none" THEN [L EXCEPT !.universe.ulogfile = NULL]
  ELSE LET X == [Opened(L, Arg(L.logflag))
                   EXCEPT !.universe.ulogfile = fopen(Arg(L.logflag))]
       IN  IF X.universe.ulogfile = NULL
           THEN Fatal(X, "universe_one", "Cannot open universe log file")
           ELSE X

\* variant: the other procs keep stdout whatever -screen says
UniverseOthers_Stdout(L) ==
  [L EXCEPT !.universe.uscreen = stdout, !.universe.ulogfile = NULL]

\* lines 233-237, on the other universe procs
UniverseOthers(L) ==
  [L EXCEPT !.universe.uscreen = IF L.screenflag = 0 THEN stdout ELSE NULL,
            !.universe.ulogfile = NULL]

UniverseRoot(L) ==
  IF L.universe.me = 0 THEN Then(UniverseScreen(L), UniverseLog) ELSE L

UniverseRest(L) ==
  IF L.universe.me > 0 THEN UniverseOthers(L) ELSE L

UniverseStreams(L) == Then(UniverseRoot(L), UniverseRest)

-----------------------------------------------------------------------------
(* MPI communicators.  "uworld" is the communicator handed to the          *)
(* constructor; MPI_Comm_split() gives the callers of one colour a new     *)
(* communicator, ranked by key and then by rank in the old one.            *)

\* the universe a process has built when it reaches the split
UniverseOf(q) == CheckUniverse(ParseSwitches(NewLammps(q))).universe

\* line 272: colour and key of MPI_Comm_split(universe->uworld,iworld,0,&world)
SplitColour(q) == UniverseOf(q).iworld
\* variant: the key is the negated rank, which reverses the order in a world
SplitKey_Reversed(q) == 0 - q
SplitKey(q) == 0

MPI_Comm_split(q) == DotName("world", SplitColour(q))

CommGroup(comm) ==
  IF comm = "uworld" THEN Procs
  ELSE {q \in Procs : MPI_Comm_split(q) = comm}

Before(q, p) ==
  \/ SplitKey(q) < SplitKey(p)
  \/ SplitKey(q) = SplitKey(p) /\ q < p

MPI_Comm_rank(comm, p) ==
  IF comm = "uworld" THEN p
  ELSE Cardinality({q \in CommGroup(comm) : Before(q, p)})

-----------------------------------------------------------------------------
(* LAMMPS::LAMMPS, lines 239-263: no partition switch, the world is the    *)
(* universe.                                                               *)

Version == "LAMMPS (version)"

Fprintf(L, stream, text) ==
  [L EXCEPT !.log = Append(@, Ev("fprintf", stream, text))]

\* variant: the failed open of the input script is reported with error->all
OpenInput_All(L) ==
  LET X == [Opened(L, Arg(L.inflag)) EXCEPT !.infile = fopen(Arg(L.inflag))]
  IN  IF X.infile = NULL
      THEN Fatal(X, "all", "Cannot open input script " \o Arg(L.inflag))
      ELSE X

\* lines 250-258 and 323-330: the input script
OpenInput(L) ==
  LET X == [Opened(L, Arg(L.inflag)) EXCEPT !.infile = fopen(Arg(L.inflag))]
  IN  IF X.infile = NULL
      THEN Fatal(X, "one", "Cannot open input script " \o Arg(L.inflag))
      ELSE X

\* lines 250-258
SingleInput(L) ==
  IF L.universe.me = 0
  THEN IF L.inflag = 0 THEN [L EXCEPT !.infile = stdin] ELSE OpenInput(L)
  ELSE L

\* variant: every proc writes the banner, not only proc 0
SingleBanner_AllProcs(L) ==
  LET X == IF L.screen # NULL THEN Fprintf(L, L.screen, Version) ELSE L
  IN  IF X.logfile # NULL THEN Fprintf(X, X.logfile, Version) ELSE X

\* lines 260-263
SingleBanner(L) ==
  IF L.universe.me = 0
  THEN LET X == IF L.screen # NULL THEN Fprintf(L, L.screen, Version) ELSE L
       IN  IF X.logfile # NULL THEN Fprintf(X, X.logfile, Version) ELSE X
  ELSE L

\* variant: the world logfile is not taken from the universe
SingleWorld_NoLog(L) ==
  Then(SingleInput([L EXCEPT !.screen = L.universe.uscreen,
                             !.world = L.universe.uworld,
                             !.infile = NULL]),
       SingleBanner)

\* lines 245-263
SingleWorld(L) ==
  Then(SingleInput([L EXCEPT !.screen = L.universe.uscreen,
                             !.logfile = L.universe.ulogfile,
                             !.world = L.universe.uworld,
                             !.infile = NULL]),
       SingleBanner)

-----------------------------------------------------------------------------
(* LAMMPS::LAMMPS, lines 265-357: the universe is split into worlds.       *)

\* a world file is opened into the screen or the logfile member
OpenScreen(L, name) ==
  LET X == [Opened(L, name) EXCEPT !.screen = fopen(name)]
  IN  IF X.screen = NULL THEN Fatal(X, "one", "Cannot open screen file") ELSE X

OpenLogfile(L, name) ==
  LET X == [Opened(L, name) EXCEPT !.logfile = fopen(name)]
  IN  IF X.logfile = NULL THEN Fatal(X, "one", "Cannot open logfile") ELSE X

\* variant: -screen is looked at before -pscreen
WorldScreen_ScreenFirst(L) ==
  IF L.me = 0 THEN
    IF L.screenflag # 0 THEN
      IF Arg(L.screenflag) = "none" THEN [L EXCEPT !.screen = NULL]
      ELSE OpenScreen(L, DotName(Arg(L.screenflag), L.universe.iworld))
    ELSE IF L.partscreenflag = 0
    THEN OpenScreen(L, DotName("screen", L.universe.iworld))
    ELSE IF Arg(L.partscreenflag) = "none" THEN [L EXCEPT !.screen = NULL]
    ELSE OpenScreen(L, DotName(Arg(L.partscreenflag), L.universe.iworld))
  ELSE [L EXCEPT !.screen = NULL]

\* lines 275-297
WorldScreen(L) ==
  IF L.me = 0 THEN
    IF L.partscreenflag = 0 THEN
      IF L.screenflag = 0
      THEN OpenScreen(L, DotName("screen", L.universe.iworld))
      ELSE IF Arg(L.screenflag) = "none" THEN [L EXCEPT !.screen = NULL]
      ELSE OpenScreen(L, DotName(Arg(L.screenflag), L.universe.iworld))
    ELSE IF Arg(L.partscreenflag) = "none" THEN [L EXCEPT !.screen = NULL]
    ELSE OpenScreen(L, DotName(Arg(L.partscreenflag), L.universe.iworld))
  ELSE [L EXCEPT !.screen = NULL]

\* variant: -screen none silences the world logfile too
WorldLog_ScreenNone(L) ==
  IF L.me = 0 THEN
    IF L.screenflag # 0 /\ Arg(L.screenflag) = "none"
    THEN [L EXCEPT !.logfile = NULL]
    ELSE IF L.partlogflag = 0 THEN
      IF L.logflag = 0
      THEN OpenLogfile(L, DotName("log.lammps", L.universe.iworld))
      ELSE IF Arg(L.logflag) = "none" THEN [L EXCEPT !.logfile = NULL]
      ELSE OpenLogfile(L, DotName(Arg(L.logflag), L.universe.iworld))
    ELSE IF Arg(L.partlogflag) = "none" THEN [L EXCEPT !.logfile = NULL]
    ELSE OpenLogfile(L, DotName(Arg(L.partlogflag), L.universe.iworld))
  ELSE [L EXCEPT !.logfile = NULL]

\* lines 299-321
WorldLog(L) ==
  IF L.me = 0 THEN
    IF L.partlogflag = 0 THEN
      IF L.logflag = 0
      THEN OpenLogfile(L, DotName("log.lammps", L.universe.iworld))
      ELSE IF Arg(L.logflag) = "none" THEN [L EXCEPT !.logfile = NULL]
      ELSE OpenLogfile(L, DotName(Arg(L.logflag), L.universe.iworld))
    ELSE IF Arg(L.partlogflag) = "none" THEN [L EXCEPT !.logfile = NULL]
    ELSE OpenLogfile(L, DotName(Arg(L.partlogflag), L.universe.iworld))
  ELSE [L EXCEPT !.logfile = NULL]

\* lines 323-330
WorldInput(L) ==
  IF L.me = 0 THEN OpenInput(L) ELSE [L EXCEPT !.infile = NULL]

\* lines 334-345
UniverseBanner(L) ==
  LET running == "Running on " \o ToString(L.universe.nworlds)
                   \o " partitions of processors"
      Both(X, stream) == Fprintf(Fprintf(X, stream, Version), stream, running)
  IN  IF L.universe.me = 0
      THEN LET X == IF L.universe.uscreen # NULL
                    THEN Both(L, L.universe.uscreen) ELSE L
           IN  IF X.universe.ulogfile # NULL
               THEN Both(X, X.universe.ulogfile) ELSE X
      ELSE L

\* lines 347-356
WorldBanner(L) ==
  LET partition == "Processor partition = " \o ToString(L.universe.iworld)
      Both(X, stream) == Fprintf(Fprintf(X, stream, Version), stream, partition)
  IN  IF L.me = 0
      THEN LET X == IF L.screen # NULL THEN Both(L, L.screen) ELSE L
           IN  IF X.logfile # NULL THEN Both(X, X.logfile) ELSE X
      ELSE L

\* lines 271-273
SplitUniverse(L) ==
  LET w == MPI_Comm_split(L.universe.me)
  IN  [L EXCEPT !.world = w,
                !.me = MPI_Comm_rank(w, L.universe.me),
                !.log = Append(@, Ev("MPI_Comm_split", L.universe.uworld, w))]

\* lines 270-357
MultiWorld(L) ==
  Then(Then(Then(Then(Then(SplitUniverse(L), WorldScreen), WorldLog),
                 WorldInput), UniverseBanner), WorldBanner)

\* lines 244-357
SetupWorld(L) ==
  IF L.universe.existflag = 0 THEN SingleWorld(L) ELSE MultiWorld(L)

-----------------------------------------------------------------------------
(* LAMMPS::LAMMPS, lines 359-389: datatype settings of lmptype.h, here     *)
(* those of the default LAMMPS_SMALLBIG build.                             *)

SizeOf ==
  [ int |-> 4, smallint |-> 4, tagint |-> 4, bigint |-> 8,
    MPI_LMP_TAGINT |-> 4, MPI_LMP_BIGINT |-> 8 ]

CheckDatatypes(L) ==
  IF SizeOf.smallint # SizeOf.int
  THEN Fatal(L, "all", "Smallint setting in lmptype.h is invalid")
  ELSE IF SizeOf.tagint < SizeOf.smallint
  THEN Fatal(L, "all", "Tagint setting in lmptype.h is invalid")
  ELSE IF SizeOf.bigint < SizeOf.tagint
  THEN Fatal(L, "all", "Bigint setting in lmptype.h is invalid")
  ELSE IF SizeOf.MPI_LMP_TAGINT # SizeOf.tagint
  THEN Fatal(L, "all", "MPI_LMP_TAGINT and tagint in lmptype.h are not compatible")
  ELSE IF SizeOf.MPI_LMP_BIGINT # SizeOf.bigint
  THEN Fatal(L, "all", "MPI_LMP_BIGINT and bigint in lmptype.h are not compatible")
  ELSE IF SizeOf.smallint # 4 \/ SizeOf.tagint # 4 \/ SizeOf.bigint # 8
  THEN Fatal(L, "all", "Small, tag, big integers are not sized correctly")
  ELSE L

-----------------------------------------------------------------------------
(* LAMMPS::LAMMPS, lines 391-410: the accelerator.                         *)

New(L, member, class) ==
  [L EXCEPT !.log = Append(@, Ev("new", member, class))]

Delete(L, member, object) ==
  [L EXCEPT !.log = Append(@, Ev("delete", member, object))]

\* variant: -cuda on falls back like the default when USER-CUDA is missing
SelectCuda_Fallback(L) ==
  IF L.cudaflag = 0 THEN [L EXCEPT !.cuda = NULL]
  ELSE LET X == [New(L, "cuda", "Cuda") EXCEPT !.cuda = "Cuda"]
       IN  IF ~cuda_exists
           THEN [Delete(X, "cuda", X.cuda) EXCEPT !.cuda = NULL]
           ELSE X

\* lines 394-406
SelectCuda(L) ==
  IF L.cudaflag = 0 THEN [L EXCEPT !.cuda = NULL]
  ELSE IF L.cudaflag = 1 THEN
    LET X == [New(L, "cuda", "Cuda") EXCEPT !.cuda = "Cuda"]
    IN  IF ~cuda_exists
        THEN Fatal(X, "all", "Cannot use -cuda on without USER-CUDA installed")
        ELSE X
  ELSE
    LET X == [New(L, "cuda", "Cuda") EXCEPT !.cuda = "Cuda"]
    IN  IF ~cuda_exists
        THEN [Delete(X, "cuda", X.cuda) EXCEPT !.cuda = NULL]
        ELSE X

\* variant: the notice is a matter of the rank in the universe
CudaNotice_PoolRank(L) ==
  IF L.cuda # NULL /\ L.universe.me = 0
  THEN Message(L, "USER-CUDA mode is enabled")
  ELSE L

\* lines 408-410
CudaNotice(L) ==
  LET me == MPI_Comm_rank(L.world, L.universe.me)
  IN  IF L.cuda # NULL /\ me = 0
      THEN Message(L, "USER-CUDA mode is enabled")
      ELSE L

-----------------------------------------------------------------------------
(* LAMMPS::create(), lines 473-504.                                        *)

LMP_USER_OMP == FALSE   \* the build has no USER-OMP package

\* member = new class(this)
Construct(L, member, class) ==
  [New(L, member, class) EXCEPT ![member] = class]

CreateComm(L) ==
  Construct(L, "comm", IF L.cuda # NULL THEN "CommCuda" ELSE "Comm")
CreateNeighbor(L) ==
  Construct(L, "neighbor", IF L.cuda # NULL THEN "NeighborCuda" ELSE "Neighbor")
CreateDomain(L) ==
  Construct(L, "domain", IF L.cuda # NULL THEN "DomainCuda"
                         ELSE IF LMP_USER_OMP THEN "DomainOMP" ELSE "Domain")
CreateAtom(L) ==
  LET X == Construct(L, "atom", "Atom")
  IN  [X EXCEPT !.log = Append(@, Ev("create_avec", "atom", "atomic"))]
CreateGroup(L) == Construct(L, "group", "Group")
CreateForce(L) == Construct(L, "force", "Force")
CreateModify(L) ==
  Construct(L, "modify", IF L.cuda # NULL THEN "ModifyCuda" ELSE "Modify")
CreateOutput(L) == Construct(L, "output", "Output")
CreateUpdate(L) == Construct(L, "update", "Update")
CreateTimer(L) == Construct(L, "timer", "Timer")

\* variant: the particle store is built first
create_AtomFirst(L) ==
  CreateTimer(CreateUpdate(CreateOutput(CreateModify(CreateForce(
    CreateGroup(CreateDomain(CreateNeighbor(CreateComm(CreateAtom(L))))))))))

create(L) ==
  CreateTimer(CreateUpdate(CreateOutput(CreateModify(CreateForce(
    CreateGroup(CreateAtom(CreateDomain(CreateNeighbor(CreateComm(L))))))))))

-----------------------------------------------------------------------------
(* LAMMPS::post_create(), lines 512-518.                                   *)

InputOne(L, command) ==
  [L EXCEPT !.log = Append(@, Ev("input_one", "input", command))]

\* variant: every enabled suffix gets the gpu directive
post_create_AnySuffix(L) ==
  IF L.suffix # NULL /\ L.suffix_enable # 0
  THEN IF L.suffix = "omp" THEN InputOne(L, "package omp *")
       ELSE InputOne(L, "package gpu force/neigh 0 0 1")
  ELSE L

post_create(L) ==
  IF L.suffix # NULL /\ L.suffix_enable # 0
  THEN LET X == IF L.suffix = "gpu"
                THEN InputOne(L, "package gpu force/neigh 0 0 1") ELSE L
       IN  IF X.suffix = "omp" THEN InputOne(X, "package omp *") ELSE X
  ELSE L

-----------------------------------------------------------------------------
(* LAMMPS::init(), lines 525-541.                                          *)

\* member->init()
InitMember(L, member) ==
  [L EXCEPT !.log = Append(@, Ev("init", member, L[member]))]

InitCuda(L) ==
  IF L.cuda # NULL
  THEN [L EXCEPT !.log = Append(@, Ev("accelerator", "cuda", L.cuda))]
  ELSE L

\* variant: init() reaches every subsystem that create() builds
init_All(L) ==
  InitMember(InitMember(InitMember(InitMember(InitMember(InitMember(
    InitMember(InitMember(InitMember(InitMember(InitCuda(L),
      "update"), "force"), "domain"), "atom"), "group"), "modify"),
      "neighbor"), "comm"), "output"), "timer")

\* variant: init() remembers that it ran and does nothing the next time
init_Once(L) ==
  IF \E i \in 1..Len(L.log) : L.log[i] = Ev("init", "update", L.update)
  THEN L
  ELSE InitMember(InitMember(InitMember(InitMember(InitMember(InitMember(
         InitMember(InitMember(InitCuda(L),
           "update"), "force"), "domain"), "atom"), "modify"), "neighbor"),
           "comm"), "output")

\* variant: comm is initialized before neighbor
init_CommEarly(L) ==
  InitMember(InitMember(InitMember(InitMember(InitMember(InitMember(
    InitMember(InitMember(InitCuda(L),
      "update"), "force"), "domain"), "atom"), "modify"), "comm"),
      "neighbor"), "output")

init(L) ==
  InitMember(InitMember(InitMember(InitMember(InitMember(InitMember(
    InitMember(InitMember(InitCuda(L),
      "update"), "force"), "domain"), "atom"), "modify"), "neighbor"),
      "comm"), "output")

-----------------------------------------------------------------------------
(* LAMMPS::destroy(), lines 548-566.                                       *)

\* delete member: the object is gone, the pointer keeps its value
DeleteMember(L, member) ==
  [Delete(L, member, L[member])
     EXCEPT ![member] = IF L[member] = NULL THEN NULL ELSE DELETED]

\* variant: destroy() leaves the modify pointer as delete left it
destroy_Dangling(L) ==
  DeleteMember(DeleteMember(DeleteMember(DeleteMember(DeleteMember(
    DeleteMember(DeleteMember(DeleteMember(DeleteMember(DeleteMember(L,
      "update"), "neighbor"), "comm"), "force"), "group"), "output"),
      "modify"), "domain"), "atom"), "timer")

\* variant: the members are deleted in the reverse of the order of create()
destroy_Reverse(L) ==
  [DeleteMember(DeleteMember(DeleteMember(DeleteMember(DeleteMember(
     DeleteMember(DeleteMember(DeleteMember(DeleteMember(DeleteMember(L,
       "timer"), "update"), "output"), "modify"), "force"), "group"),
       "atom"), "domain"), "neighbor"), "comm")
   EXCEPT !.modify = NULL]

destroy(L) ==
  [DeleteMember(DeleteMember(DeleteMember(DeleteMember(DeleteMember(
     DeleteMember(DeleteMember(DeleteMember(DeleteMember(DeleteMember(L,
       "update"), "neighbor"), "comm"), "force"), "group"), "output"),
       "modify"), "domain"), "atom"), "timer")
   EXCEPT !.modify = NULL]

-----------------------------------------------------------------------------
(* LAMMPS::LAMMPS, lines 412-431: citations, input, top-level classes,     *)
(* help.                                                                   *)

\* lines 414-415
AllocateCiteMe(L) ==
  IF L.citeflag # 0 THEN Construct(L, "citeme", "CiteMe")
  ELSE [L EXCEPT !.citeme = NULL]

\* line 419
AllocateInput(L) == Construct(L, "input", "Input")

\* lines 428-431
Help(L) ==
  IF L.helpflag # 0
  THEN LET X == IF L.universe.me = 0
                THEN [L EXCEPT !.log = Append(@, Ev("help_message", L.screen, ""))]
                ELSE L
       IN  [X EXCEPT !.pc = "exited", !.log = Append(@, Ev("done", "error", ""))]
  ELSE L

\* the constructor, lines 65-432
LAMMPS(p) ==
  LET L == Then(Then(Then(Then(Then(Then(Then(Then(Then(Then(Then(
             ParseSwitches(NewLammps(p)),
             CheckUniverse), UniverseStreams), SetupWorld), CheckDatatypes),
             SelectCuda), CudaNotice), AllocateCiteMe), AllocateInput),
             create), post_create), Help)
  IN  IF L.pc = "ctor" THEN [L EXCEPT !.pc = "up"] ELSE L

-----------------------------------------------------------------------------
(* LAMMPS::~LAMMPS(), lines 442-465.                                       *)

Fclose(L, stream) ==
  [L EXCEPT !.log = Append(@, Ev("fclose", stream, ""))]

\* lines 448-454
CloseFiles(L) ==
  IF L.universe.nworlds = 1 THEN
    IF L.logfile # NULL THEN Fclose(L, L.logfile) ELSE L
  ELSE
    LET X == IF L.screen # NULL /\ L.screen # stdout
             THEN Fclose(L, L.screen) ELSE L
        Y == IF X.logfile # NULL THEN Fclose(X, X.logfile) ELSE X
    IN  IF Y.universe.ulogfile # NULL
        THEN Fclose(Y, Y.universe.ulogfile) ELSE Y

\* variant: the world is freed only if the universe has several worlds
FreeWorld_Several(L) ==
  IF L.universe.nworlds > 1
  THEN [L EXCEPT !.log = Append(@, Ev("MPI_Comm_free", L.world, ""))]
  ELSE L

\* line 456
FreeWorld(L) ==
  IF L.world # L.universe.uworld
  THEN [L EXCEPT !.log = Append(@, Ev("MPI_Comm_free", L.world, ""))]
  ELSE L

\* lines 458-464
DeleteFundamental(L) ==
  Delete(Delete(Delete(Delete(Delete(Delete(L,
    "cuda", L.cuda), "suffix", L.suffix), "input", L.input),
    "universe", "Universe"), "error", "Error"), "memory", "Memory")

\* variant: the fundamental classes are deleted before the top-level ones
LAMMPS_dtor_Early(L) ==
  [destroy(DeleteFundamental(FreeWorld(CloseFiles(
     Delete(L, "citeme", L.citeme)))))
   EXCEPT !.pc = "done"]

LAMMPS_dtor(L) ==
  [DeleteFundamental(FreeWorld(CloseFiles(
     Delete(destroy(L), "citeme", L.citeme))))
   EXCEPT !.pc = "done"]

-----------------------------------------------------------------------------
(* The runs: argument vectors, pool sizes and file systems.                *)

Prog == <<"lmp">>
InSwitch == <<"-in", "in.script">>

Opt(S) == {<<>>} \cup S

\* the world sizes after -partition: every list of sizes that sum to at most n
RECURSIVE SizeLists(_)
SizeLists(n) ==
  {<<>>} \cup UNION { { <<ToString(k)>> \o t : t \in SizeLists(n - k) } : k \in 1..n }

PartitionSwitches == { <<"-partition">> \o t : t \in SizeLists(MaxProcs) }

\* -screen with -pscreen, -log with -plog, -screen with -log, and the
\* suppression of one stream with the per-world switch of the other
StreamSwitches ==
  LET sc == Opt({<<"-screen", "none">>, <<"-screen", "scr">>})
      lg == Opt({<<"-log", "none">>, <<"-log", "mylog">>})
      ps == Opt({<<"-pscreen", "none">>, <<"-pscreen", "pscr">>})
      pl == Opt({<<"-plog", "none">>, <<"-plog", "plog">>})
  IN  { x \o y : x \in sc, y \in ps } \cup { x \o y : x \in lg, y \in pl }
        \cup { x \o y : x \in sc, y \in lg }
        \cup { <<"-screen", "none">> \o y : y \in pl }
        \cup { <<"-log", "none">> \o y : y \in ps }

\* runs that vary the partition and the streams
StreamArgs ==
  { Prog \o pa \o inp \o st :
      pa \in Opt(PartitionSwitches), inp \in Opt({InSwitch}),
      st \in StreamSwitches }

\* runs that vary the accelerator, and with it the suffix or another switch;
\* they are made on the pools of fewer than MaxProcs processes
VariantArgs ==
  { Prog \o pa \o cu \o ot :
      pa \in { <<>>, InSwitch, <<"-p", "1", "1", "-i", "in.script">> },
      cu \in Opt({<<"-cuda", "on">>, <<"-cuda", "off">>, <<"-c", "on">>}),
      ot \in Opt({<<"-suffix", "gpu">>, <<"-suffix", "omp">>,
                  <<"-suffix", "opt">>, <<"-sf", "gpu">>,
                  <<"-nocite">>, <<"-help">>, <<"-h">>, <<"-echo", "screen">>,
                  <<"-var", "x", "1", "2">>, <<"-nc">>}) }

\* runs with -reorder, and runs with a switch the parser rejects
OtherArgs ==
  { Prog \o pre \o sw \o post :
      pre \in { <<>>, <<"-partition", "1", "1">> },
      sw \in { <<"-reorder", "nth", "1">>, <<"-r", "nth", "1">>,
               <<"-reorder", "nth">>, <<"-bogus">>, <<"-cuda", "maybe">>,
               <<"-cuda">>, <<"-log">>, <<"-screen">>, <<"-in">>,
               <<"-partition">>, <<"-suffix">>, <<"-var", "x">>, <<"-echo">>,
               <<"-pscreen">>, <<"-plog">>, <<"-l", "none", "-sc", "none">>,
               <<"-ps", "none", "-pl", "none">>, <<"-e", "none", "-v", "x", "1">> },
      post \in { <<>>, InSwitch, <<"-in", "in.script", "-partition", "1", "1">> } }

\* the value that follows one of the switches toks in a, if any
RECURSIVE Values(_, _)
Values(a, toks) ==
  IF Len(a) < 2 THEN {}
  ELSE (IF a[1] \in toks THEN {a[2]} ELSE {}) \cup Values(Tail(a), toks)

\* the world sizes listed in a
RECURSIVE Sizes(_)
Sizes(a) ==
  IF a = <<>> THEN <<>>
  ELSE (IF atoi(Head(a)) > 0 THEN <<atoi(Head(a))>> ELSE <<>>) \o Sizes(Tail(a))

\* the file names a run of StreamArgs opens, if every open succeeds: those of
\* the universe, and those of its first two worlds
StreamFiles(a, n) ==
  LET screen == Values(a, {"-screen"})
      log == Values(a, {"-log"})
      pscreen == Values(a, {"-pscreen"})
      plog == Values(a, {"-plog"})
      partition == "-partition" \in { a[i] : i \in 1..Len(a) }
      input == Values(a, {"-in"})
      universe == screen \cup log \cup input
                    \cup (IF log = {} THEN {"log.lammps"} ELSE {})
      bases == (IF pscreen # {} THEN pscreen
                ELSE IF screen # {} THEN screen ELSE {"screen"})
                 \cup (IF plog # {} THEN plog
                       ELSE IF log # {} THEN log ELSE {"log.lammps"})
  IN  IF partition
      THEN IF SumSeq(Sizes(a)) # n \/ input = {} THEN {}
           ELSE (universe \cup { DotName(b, i) : b \in bases \ {"none"},
                                   i \in {0, 1} }) \ {"none"}
      ELSE IF pscreen # {} \/ plog # {} THEN {}
           ELSE universe \ {"none"}

\* the files of S that fopen() cannot open: none, one, or one besides the
\* default log.lammps; on the pools of MaxProcs processes every open succeeds
Unopenable(S) ==
  {{}} \cup { {f} : f \in S } \cup { {w, f} : w \in S \cap {"log.lammps"}, f \in S }

NoLammps(p) == [NewLammps(p) EXCEPT !.pc = "new", !.log = <<>>]

\* the files that fopen() cannot open in a run that sets the accelerator: the
\* input script of an unpartitioned run, or none
VariantUnopenable(a) ==
  IF a \in { Prog \o InSwitch \o <<"-cuda", v>> : v \in {"on", "off"} }
  THEN {{}, {"in.script"}}
  ELSE {{}}

Init ==
  /\ nprocs \in 1..MaxProcs
  /\ \/ /\ arg \in StreamArgs
        /\ cuda_exists = FALSE
        /\ unopenable \in (IF nprocs < MaxProcs
                          THEN Unopenable(StreamFiles(arg, nprocs)) ELSE {{}})
     \/ /\ arg \in (VariantArgs \cup OtherArgs) \ StreamArgs
        /\ nprocs < MaxProcs
        /\ cuda_exists \in BOOLEAN
        /\ unopenable \in VariantUnopenable(arg)
  /\ lmp = [p \in Procs |-> NoLammps(p)]

-----------------------------------------------------------------------------------------------------------------------------------------------------
(* The steps of a process: it runs the constructor and, if that returns,   *)
(* the driver calls create(), post_create(), init() and destroy() on the   *)
(* instance and at last runs the destructor.                               *)

\* a call on a pointer that holds no object: undefined behaviour
Misuse(e) ==
  \/ e.op = "delete" /\ e.b \in {DELETED, UNINIT}
  \/ e.op = "init" /\ e.b \in {DELETED, UNINIT, NULL}

\* what a method leaves behind: its result, or, if it misused a pointer, a
\* crash at the misuse or at its end
Outcomes(before, after) ==
  {after} \cup
    { [after EXCEPT !.pc = "crashed", !.log = SubSeq(after.log, 1, j)] :
        j \in { k \in (Len(before.log) + 1) .. Len(after.log) :
                  \/ Misuse(after.log[k])
                  \/ /\ k = Len(after.log)
                     /\ \E i \in (Len(before.log) + 1) .. k : Misuse(after.log[i]) } }

\* the constructor went through the collective MPI_Comm_split() of line 272,
\* which no process leaves before every process of the universe has called it
Split(L) == L.universe.existflag = 1

Called(L) == [L EXCEPT !.nops = @ + 1]

Start(p) ==
  /\ lmp[p].pc = "new"
  /\ lmp' = [lmp EXCEPT ![p] = LAMMPS(p)]
  /\ UNCHANGED <<arg, nprocs, cuda_exists, unopenable>>

Call(p, L) ==
  /\ lmp[p].pc = "up"
  /\ lmp[p].nops < MaxOps
  /\ \E r \in Outcomes(lmp[p], Called(L)) : lmp' = [lmp EXCEPT ![p] = r]
  /\ UNCHANGED <<arg, nprocs, cuda_exists, unopenable>>

CallCreate(p) == Call(p, create(lmp[p]))

CallPostCreate(p) == Call(p, post_create(lmp[p]))

CallInit(p) == Call(p, init(lmp[p]))

CallDestroy(p) == Call(p, destroy(lmp[p]))

Shutdown(p) ==
  /\ lmp[p].pc = "up"
  /\ Split(lmp[p]) => \A q \in Procs : lmp[q].pc # "new"
  /\ \E r \in Outcomes(lmp[p], LAMMPS_dtor(lmp[p])) :
       lmp' = [lmp EXCEPT ![p] = r]
  /\ UNCHANGED <<arg, nprocs, cuda_exists, unopenable>>

\* startup and shutdown of the pool
Next ==
  \/ \E p \in Procs : Start(p)
  \/ \E p \in Procs : Shutdown(p)

Spec == Init /\ [][Next]_vars

-----------------------------------------------------------------------------
(* One instance driven through its lifecycle methods.                      *)

LifeArgs ==
  { Prog \o cu \o sf :
      cu \in Opt({<<"-cuda", "on">>, <<"-cuda", "off">>}),
      sf \in Opt({<<"-suffix", "gpu">>, <<"-suffix", "omp">>,
                  <<"-sf", "opt">>}) }

LifeInit ==
  /\ nprocs \in {1}
  /\ arg \in LifeArgs
  /\ cuda_exists \in BOOLEAN
  /\ unopenable = {}
  /\ lmp = [p \in Procs |-> NoLammps(p)]

LifeNext ==
  \/ \E p \in Procs : Start(p)
  \/ \E p \in Procs : CallCreate(p)
  \/ \E p \in Procs : CallPostCreate(p)
  \/ \E p \in Procs : CallInit(p)
  \/ \E p \in Procs : CallDestroy(p)
  \/ \E p \in Procs : Shutdown(p)

LifeSpec == LifeInit /\ [][LifeNext]_vars

-----------------------------------------------------------------------------
(* Partition-only runs on larger pools, the processes started in rank      *)
(* order.                                                                  *)

RECURSIVE ListsOf(_)
ListsOf(n) ==
  IF n = 0 THEN {<<>>}
  ELSE { <<ToString(k)>> \o t : k \in 1..SplitSize, t \in ListsOf(n - 1) }

SplitArgs ==
  { Prog \o InSwitch \o <<"-partition">> \o t :
      t \in UNION { ListsOf(n) : n \in 1..SplitWorlds } }

SplitInit ==
  /\ nprocs \in 1..SplitProcs
  /\ arg \in SplitArgs
  /\ cuda_exists = FALSE
  /\ unopenable = {}
  /\ lmp = [p \in Procs |-> NoLammps(p)]

StartInOrder(p) ==
  /\ \A q \in Procs : q < p => lmp[q].pc # "new"
  /\ Start(p)

SplitNext == \E p \in Procs : StartInOrder(p)

SplitSpec == SplitInit /\ [][SplitNext]_vars

-----------------------------------------------------------------------------
(* What the properties below read off a run.                               *)

Started == { p \in Procs : lmp[p].pc # "new" }

\* the constructor returned (or ended the process through -help)
Returned(p) == lmp[p].pc \in {"up", "done", "exited", "crashed"}

\* the fatal call that ended the process
Failed(p) == lmp[p].pc = "failed"
FatalOf(p) == lmp[p].log[Len(lmp[p].log)]

\* the while loop of the switches ran to its end
Parsed(p) == lmp[p].iarg >= narg

HasSwitch(toks) == \E i \in 2..Len(arg) : arg[i] \in toks
Partitioned == HasSwitch({"-partition", "-p"})
HasInput == HasSwitch({"-in", "-i"})

\* the calls of one kind in a log
Calls(p, ops) == SelectSeq(lmp[p].log, LAMBDA e : e.op \in ops)
NoFileOpened(p) == Calls(p, {"fopen"}) = <<>>

Subsystems ==
  { "comm", "neighbor", "domain", "atom", "group", "force", "modify",
    "output", "update", "timer" }

\* the subsystem calls of a log: which method on which member
SubsystemCalls(p, ops) ==
  LET c == SelectSeq(lmp[p].log, LAMBDA e : e.op \in ops /\ e.a \in Subsystems)
  IN  [i \in 1..Len(c) |-> c[i].a]

NoSubsystemBuilt(p) == SubsystemCalls(p, {"new"}) = <<>>

-----------------------------------------------------------------------------
(* C1: a process gets past the partition check of lines 188-189 only if    *)
(* the sizes of its worlds sum to the pool size; a process that reaches    *)
(* the check with sizes of another sum raises the pool-wide fatal          *)
(* "Processor partitions are inconsistent", and a process whose sizes do   *)
(* not sum to the pool size has opened no file and built no subsystem.     *)

Inconsistent == "Processor partitions are inconsistent"

WorldSum(p) == SumSeq(lmp[p].universe.procs_per_world)

PastValidation(p) ==
  \/ Returned(p)
  \/ Failed(p) /\ Parsed(p) /\ FatalOf(p).b # Inconsistent

-----------------------------------------------------------------------------
(* C2: with -partition sizes s_1..s_k that sum to the pool size, k worlds  *)
(* exist, world i is the interval of pool ranks that starts at             *)
(* s_1+...+s_(i-1), its communicator holds exactly these ranks, and the    *)
(* rank of a process in it is its offset in the interval; sizes 2,2,3,1    *)
(* on 8 processes put world rank 0 on pool ranks 0, 2, 4 and 7.            *)

FirstRank(s, i) == SumSeq(SubSeq(s, 1, i - 1))

C2_WorldIntervals ==
  LET s == Sizes(arg) IN
  SumSeq(s) = nprocs =>
    /\ \A p \in Started :
         LET L == lmp[p]
             i == L.universe.iworld + 1
         IN  /\ L.pc = "up"
             /\ L.universe.nworlds = Len(s)
             /\ i \in 1..Len(s)
             /\ p \in FirstRank(s, i) .. (FirstRank(s, i) + s[i] - 1)
             /\ Calls(p, {"MPI_Comm_split"})
                  = << Ev("MPI_Comm_split", "uworld", DotName("world", i - 1)) >>
             /\ CommGroup(L.world) = FirstRank(s, i) .. (FirstRank(s, i) + s[i] - 1)
             /\ L.me = p - FirstRank(s, i)
             /\ MPI_Comm_rank(L.world, p) = L.me
    /\ (s = <<2, 2, 3, 1>> /\ Started = Procs =>
          { p \in Procs : lmp[p].me = 0 } = {0, 2, 4, 7})

C2_Witness ==
  /\ Sizes(arg) = <<2, 2, 3, 1>> /\ nprocs = 8
  /\ \A p \in Procs : lmp[p].pc = "up"
  /\ lmp[7].universe.iworld = 3 /\ lmp[7].me = 0

-----------------------------------------------------------------------------
(* C3: without a -partition switch a process whose constructor returns     *)
(* has one world of all processes, its screen, logfile and world are the   *)
(* universe's uscreen, ulogfile and uworld, no communicator is split off   *)
(* and no file is opened but the universe's screen and log file and the    *)
(* input script, each once.                                                *)

OpensOf(p) ==
  LET c == Calls(p, {"fopen"}) IN [i \in 1..Len(c) |-> c[i].a]

C3_SingleWorld ==
  \A p \in Started :
    ~Partitioned /\ Returned(p) =>
      LET L == lmp[p] IN
      /\ L.universe.nworlds = 1
      /\ L.universe.procs_per_world = <<nprocs>>
      /\ L.universe.iworld = 0
      /\ L.screen = L.universe.uscreen
      /\ L.logfile = L.universe.ulogfile
      /\ L.world = L.universe.uworld
      /\ CommGroup(L.world) = Procs
      /\ Calls(p, {"MPI_Comm_split"}) = <<>>
      /\ \A i, j \in 1..Len(OpensOf(p)) : OpensOf(p)[i] = OpensOf(p)[j] => i = j
      /\ \A i \in 1..Len(OpensOf(p)) :
           OpensOf(p)[i] \in ({L.screen, L.logfile, L.infile} \ {NULL, stdout, stdin})
                               \cup (unopenable \cap {"log.lammps"})

C3_Witness ==
  /\ ~Partitioned /\ nprocs > 1
  /\ lmp[0].pc = "up" /\ lmp[1].pc = "up"
  /\ lmp[0].logfile = "log.lammps" /\ lmp[0].screen = "scr"

-----------------------------------------------------------------------------
(* C4 as stated: with -partition and without -in every process fails with  *)
(* "Must use -in switch with multiple partitions".                         *)

MustUseIn == "Must use -in switch with multiple partitions"

C4_AsStated ==
  \A p \in Started :
    Partitioned /\ ~HasInput =>
      /\ Failed(p) /\ FatalOf(p) = Ev("fatal", "universe_all", MustUseIn)
      /\ \A q \in Started : NoFileOpened(q)

(* C4, amended: with -partition and without -in every process fails with   *)
(* a pool-wide fatal before any process has opened a file; the fatal is    *)
(* "Must use -in switch with multiple partitions" if the switches are      *)
(* accepted and the world sizes sum to the pool size, and else the         *)
(* earlier "Invalid command-line argument", "Cannot use -reorder after     *)
(* -partition" (switches not accepted) or "Processor partitions are        *)
(* inconsistent" (sizes of another sum).                                   *)

C4_PartitionNeedsInput ==
  \A p \in Started :
    Partitioned /\ ~HasInput =>
      /\ Failed(p) /\ FatalOf(p).op = "fatal" /\ FatalOf(p).a = "universe_all"
      /\ IF ~Parsed(p)
         THEN FatalOf(p).b \in { "Invalid command-line argument",
                                 "Cannot use -reorder after -partition" }
         ELSE FatalOf(p).b = (IF WorldSum(p) # nprocs THEN Inconsistent
                              ELSE MustUseIn)
      /\ \A q \in Started : NoFileOpened(q) /\ NoSubsystemBuilt(q)

C4_Witness ==
  /\ Partitioned /\ ~HasInput /\ nprocs > 1
  /\ \A p \in Procs : Failed(p) /\ FatalOf(p).b = MustUseIn

-----------------------------------------------------------------------------
(* C5 as stated: a process that is not universe proc 0 has no universe     *)
(* screen and no universe logfile, and a process that is not proc 0 of     *)
(* its world has no world screen and no world logfile.                     *)

\* the rank in the world: the universe rank, or me of line 273 after a split
WorldRank(p) == IF Split(lmp[p]) THEN lmp[p].me ELSE p

C5_AsStated ==
  \A p \in Started :
    Returned(p) =>
      /\ p # 0 => lmp[p].universe.uscreen = NULL /\ lmp[p].universe.ulogfile = NULL
      /\ WorldRank(p) # 0 => lmp[p].screen = NULL /\ lmp[p].logfile = NULL

(* C5, amended: only universe proc 0 opens universe files and only proc 0  *)
(* of a world opens world files; every other process has a null logfile,   *)
(* and a null screen unless no -screen switch is given: then its universe  *)
(* screen, and without -partition its world screen, which is the same      *)
(* stream, is stdout.                                                      *)

HasScreen == HasSwitch({"-screen", "-sc"})

C5_RootsHoldStreams ==
  \A p \in Started :
    Returned(p) =>
      LET L == lmp[p] IN
      /\ p # 0 =>
           /\ L.universe.ulogfile = NULL
           /\ L.universe.uscreen = (IF HasScreen THEN NULL ELSE stdout)
      /\ WorldRank(p) # 0 =>
           /\ L.logfile = NULL
           /\ L.screen = (IF Partitioned \/ HasScreen THEN NULL ELSE stdout)
           /\ NoFileOpened(p)
      /\ p # 0 =>
           \A i \in 1..Len(OpensOf(p)) :
             OpensOf(p)[i] \in {L.screen, L.logfile, L.infile}

C5_Witness ==
  /\ nprocs > 2 /\ Partitioned /\ ~HasScreen
  /\ \A p \in Procs : lmp[p].pc = "up"
  /\ WorldRank(1) # 0 /\ lmp[1].universe.uscreen = stdout /\ lmp[1].screen = NULL
  /\ WorldRank(2) = 0 /\ lmp[2].screen # NULL /\ lmp[2].universe.ulogfile = NULL

-----------------------------------------------------------------------------
(* The order of the calls on the top-level members.                        *)

\* the calls of some kinds on the subsystems: which method on which member
MemberCalls(p, ops) ==
  LET c == SelectSeq(lmp[p].log, LAMBDA e : e.op \in ops /\ e.a \in Subsystems)
  IN  [i \in 1..Len(c) |-> <<c[i].op, c[i].a>>]

\* s goes round the list block, and stops at its end unless the process
\* crashed
InOrder(p, s, block) ==
  /\ \A i \in 1..Len(s) : s[i] = block[((i - 1) % Len(block)) + 1]
  /\ lmp[p].pc # "crashed" => Len(s) % Len(block) = 0

Reverse(s) == [i \in 1..Len(s) |-> s[Len(s) + 1 - i]]

Position(s, x) == CHOOSE i \in 1..Len(s) : s[i] = x

NoMisuse(p) == \A i \in 1..Len(lmp[p].log) : ~Misuse(lmp[p].log[i])

(* C6: the subsystems are constructed, in every call of create() and with  *)
(* the plain and with the accelerated classes, in the order comm,          *)
(* neighbor, domain, atom (then its "atomic" style), group, force, modify, *)
(* output, update, timer; so comm precedes atom, group, force and modify   *)
(* precede output, and output precedes update.                             *)

CreateOrder ==
  << <<"new", "comm">>, <<"new", "neighbor">>, <<"new", "domain">>,
     <<"new", "atom">>, <<"create_avec", "atom">>, <<"new", "group">>,
     <<"new", "force">>, <<"new", "modify">>, <<"new", "output">>,
     <<"new", "update">>, <<"new", "timer">> >>

C6_CreateOrder ==
  \A p \in Started :
    LET s == MemberCalls(p, {"new", "create_avec"})
        n == SubsystemCalls(p, {"new"})
    IN  /\ InOrder(p, s, CreateOrder) /\ Len(s) % Len(CreateOrder) = 0
        /\ Returned(p) => Len(s) >= Len(CreateOrder)
        /\ Len(n) >= 10 =>
             /\ Position(n, "comm") < Position(n, "atom")
             /\ \A m \in {"group", "force", "modify"} :
                  Position(n, m) < Position(n, "output")
             /\ Position(n, "output") < Position(n, "update")

C6_Witness ==
  /\ lmp[0].pc = "up" /\ lmp[0].nops > 0
  /\ lmp[0].cuda # NULL /\ lmp[0].comm = "CommCuda"
  /\ Len(MemberCalls(0, {"new", "create_avec"})) = 2 * Len(CreateOrder)

(* C7: every call of init() initializes the subsystems in the order        *)
(* update, force, domain, atom, modify, neighbor, comm, output.            *)

InitOrder ==
  << "update", "force", "domain", "atom", "modify", "neighbor", "comm",
     "output" >>

C7_InitOrder ==
  \A p \in Started :
    LET s == SubsystemCalls(p, {"init"})
    IN  /\ InOrder(p, s, InitOrder)
        /\ Len(s) >= Len(InitOrder) =>
             /\ \A m \in {"force", "domain"} :
                  Position(s, m) < Position(s, "atom")
             /\ \A m \in {"update", "force", "atom", "domain"} :
                  Position(s, m) < Position(s, "modify")
             /\ \A m \in {"force", "modify"} :
                  Position(s, m) < Position(s, "neighbor")
             /\ \A m \in {"force", "modify", "neighbor", "atom"} :
                  Position(s, m) < Position(s, "comm")
             /\ \A m \in {"domain", "force", "modify"} :
                  Position(s, m) < Position(s, "output")

C7_Witness ==
  /\ lmp[0].pc = "up" /\ NoMisuse(0)
  /\ Len(SubsystemCalls(0, {"init"})) = 2 * Len(InitOrder)

(* C8: every call of destroy() deletes the subsystems in one pass in the   *)
(* order update, neighbor, comm, force, group, output, modify, domain,     *)
(* atom, timer, which is not the reverse of the order of create().         *)

DestroyOrder ==
  << "update", "neighbor", "comm", "force", "group", "output", "modify",
     "domain", "atom", "timer" >>

C8_DestroyOrder ==
  \A p \in Started :
    LET s == SubsystemCalls(p, {"delete"})
        n == SubsystemCalls(p, {"new"})
    IN  /\ InOrder(p, s, DestroyOrder)
        /\ Len(s) >= Len(DestroyOrder) =>
             /\ \A m \in {"output", "force", "update"} :
                  Position(s, m) < Position(s, "modify")
             /\ \A m \in {"domain", "atom"} :
                  Position(s, "modify") < Position(s, m)
             /\ SubSeq(s, 1, 10) # Reverse(SubSeq(n, 1, 10))

C8_Witness ==
  /\ lmp[0].pc = "done" /\ NoMisuse(0) /\ lmp[0].nops > 1
  /\ Len(SubsystemCalls(0, {"delete"})) = 2 * Len(DestroyOrder)

-----------------------------------------------------------------------------
(* C9: without a -cuda switch no process fails for want of USER-CUDA, and  *)
(* its cuda pointer ends up NULL when USER-CUDA is missing; with -cuda on  *)
(* and USER-CUDA missing every process of the pool fails, through          *)
(* error->all() in each world unless an earlier fatal ended it, and        *)
(* builds no subsystem; with -cuda off no Cuda object is ever constructed  *)
(* and the cuda pointer is NULL.                                           *)

CudaMissing == "Cannot use -cuda on without USER-CUDA installed"

CudaValues == Values(arg, {"-cuda", "-c"})

C9_Accelerator ==
  \A p \in Started :
    LET L == lmp[p]
        built == \E i \in 1..Len(L.log) : L.log[i].op = "new" /\ L.log[i].a = "cuda"
    IN  /\ ~HasSwitch({"-cuda", "-c"}) =>
             /\ \A i \in 1..Len(L.log) : L.log[i].b # CudaMissing
             /\ L.pc \in {"up", "exited"} =>
                  L.cuda = (IF cuda_exists THEN "Cuda" ELSE NULL)
        /\ CudaValues = {"on"} /\ ~cuda_exists =>
             /\ Failed(p) /\ NoSubsystemBuilt(p)
             /\ Parsed(p) /\ WorldSum(p) = nprocs =>
                  \/ FatalOf(p) = Ev("fatal", "all", CudaMissing)
                  \/ /\ FatalOf(p).a \in {"universe_one", "one"}
                     /\ \E i \in 1..Len(L.log) :
                          L.log[i].op = "fopen" /\ L.log[i].b = NULL
        /\ CudaValues = {"off"} =>
             /\ ~built
             /\ Returned(p) => L.cuda = NULL
             /\ L.pc \in {"up", "exited"} => L.comm = "Comm"
        /\ Failed(p) /\ FatalOf(p).b = CudaMissing =>
             CudaValues = {"on"} /\ ~cuda_exists

C9_Witness ==
  /\ CudaValues = {"on"} /\ ~cuda_exists /\ Partitioned /\ nprocs = 2
  /\ \A p \in Procs : Failed(p) /\ FatalOf(p) = Ev("fatal", "all", CudaMissing)

-----------------------------------------------------------------------------
(* C10 as stated: an open that fails is a warning, and startup goes on     *)
(* without the stream, if the name of the file is a default, and is fatal  *)
(* if the user named the file or it is the input script.                   *)

\* the names the constructor makes up when no switch names the file
DefaultNames ==
  {"log.lammps"} \cup
    { DotName(base, i) : base \in {"screen", "log.lammps"}, i \in 0..MaxProcs }

\* the fopen calls of p that returned NULL
FailedOpens(p) ==
  { i \in 1..Len(lmp[p].log) :
      lmp[p].log[i].op = "fopen" /\ lmp[p].log[i].b = NULL }

\* the open at i ended the process
FatalAt(p, i) ==
  /\ Failed(p) /\ Len(lmp[p].log) = i + 1
  /\ FatalOf(p).op = "fatal"

\* the open at i was reported as a warning and the constructor went on
WarnedAt(p, i) ==
  /\ Len(lmp[p].log) > i
  /\ lmp[p].log[i + 1].op = "warning"
  /\ Failed(p) => Len(lmp[p].log) > i + 1

C10_AsStated ==
  \A p \in Started : \A i \in FailedOpens(p) :
    IF lmp[p].log[i].a \in DefaultNames THEN WarnedAt(p, i) ELSE FatalAt(p, i)

(* C10, amended: an open that fails is a warning only for the default      *)
(* universe logfile log.lammps, and startup then goes on with no universe  *)
(* logfile; every other open that fails is fatal to the process that       *)
(* opens: of a file the user named, of the input script, and also of the   *)
(* default files screen.N and log.lammps.N of a world.                     *)

C10_OpenFailures ==
  \A p \in Started : \A i \in FailedOpens(p) :
    LET L == lmp[p] IN
    IF L.log[i].a = "log.lammps"
    THEN /\ WarnedAt(p, i)
         /\ L.log[i + 1] =
              Ev("warning", "universe_warn", "Cannot open log.lammps for writing")
         /\ L.universe.ulogfile = NULL
         /\ p = 0 /\ ~HasSwitch({"-log", "-l"})
    ELSE /\ FatalAt(p, i)
         /\ FatalOf(p).a \in {"universe_one", "one"}
         /\ NoSubsystemBuilt(p)

C10_Witness ==
  /\ Partitioned /\ unopenable = {"log.lammps.1"} /\ ~HasSwitch({"-log", "-plog"})
  /\ \E p \in Procs :
       /\ Failed(p) /\ FatalOf(p) = Ev("fatal", "one", "Cannot open logfile")
       /\ FailedOpens(p) = {Len(lmp[p].log) - 1}
  /\ lmp[0].pc = "up"

-----------------------------------------------------------------------------
(* The destinations the switches ask for.                                  *)

\* the value of a switch that is given once, by either of its names
ValueOf(toks) ==
  IF Values(arg, toks) = {} THEN NULL ELSE CHOOSE v \in Values(arg, toks) : TRUE
Given(toks) == Values(arg, toks) # {}

HasHelp == HasSwitch({"-help", "-h"})

\* what an fopen() of name left in a stream that a failed open does not end
Fopened(name) == IF name \in unopenable THEN NULL ELSE name

\* the log destinations of a process whose constructor returned, from -log,
\* -plog, -partition and -help alone
UniverseLogWanted(p) ==
  IF p # 0 THEN NULL
  ELSE IF ~Given({"-log", "-l"})
       THEN IF HasHelp THEN NULL ELSE Fopened("log.lammps")
  ELSE IF ValueOf({"-log", "-l"}) = "none" THEN NULL
  ELSE ValueOf({"-log", "-l"})

WorldLogWanted(p) ==
  IF ~Partitioned THEN UniverseLogWanted(p)
  ELSE IF WorldRank(p) # 0 THEN NULL
  ELSE LET i == lmp[p].universe.iworld IN
       IF Given({"-plog", "-pl"})
       THEN IF ValueOf({"-plog", "-pl"}) = "none" THEN NULL
            ELSE DotName(ValueOf({"-plog", "-pl"}), i)
       ELSE IF Given({"-log", "-l"})
       THEN IF ValueOf({"-log", "-l"}) = "none" THEN NULL
            ELSE DotName(ValueOf({"-log", "-l"}), i)
       ELSE DotName("log.lammps", i)

\* the screen destinations, from -screen, -pscreen and -partition alone
UniverseScreenWanted(p) ==
  IF ~Given({"-screen", "-sc"}) THEN stdout
  ELSE IF p # 0 \/ ValueOf({"-screen", "-sc"}) = "none" THEN NULL
  ELSE ValueOf({"-screen", "-sc"})

WorldScreenWanted(p) ==
  IF ~Partitioned THEN UniverseScreenWanted(p)
  ELSE IF WorldRank(p) # 0 THEN NULL
  ELSE LET i == lmp[p].universe.iworld IN
       IF Given({"-pscreen", "-ps"})
       THEN IF ValueOf({"-pscreen", "-ps"}) = "none" THEN NULL
            ELSE DotName(ValueOf({"-pscreen", "-ps"}), i)
       ELSE IF Given({"-screen", "-sc"})
       THEN IF ValueOf({"-screen", "-sc"}) = "none" THEN NULL
            ELSE DotName(ValueOf({"-screen", "-sc"}), i)
       ELSE DotName("screen", i)

(* C11: the log destinations of a process whose constructor returned are   *)
(* decided by -log, -plog, -partition and -help alone, and its screen      *)
(* destinations by -screen, -pscreen and -partition alone, so -screen none *)
(* leaves the logs and -log none the screens as they are without it; with  *)
(* -screen none the universe screen, and the world screen unless -pscreen  *)
(* names it, is NULL on every process.                                     *)

ScreenNone == Given({"-screen", "-sc"}) /\ ValueOf({"-screen", "-sc"}) = "none"
LogNone == Given({"-log", "-l"}) /\ ValueOf({"-log", "-l"}) = "none"

C11_StreamsIndependent ==
  \A p \in Started :
    Returned(p) =>
      LET L == lmp[p] IN
      /\ L.universe.ulogfile = UniverseLogWanted(p)
      /\ L.logfile = WorldLogWanted(p)
      /\ L.universe.uscreen = UniverseScreenWanted(p)
      /\ L.screen = WorldScreenWanted(p)
      /\ ScreenNone =>
           /\ L.universe.uscreen = NULL
           /\ ~(Partitioned /\ Given({"-pscreen", "-ps"})) => L.screen = NULL
      /\ LogNone =>
           /\ L.universe.ulogfile = NULL
           /\ ~(Partitioned /\ Given({"-plog", "-pl"})) => L.logfile = NULL

C11_Witness ==
  /\ ScreenNone /\ Partitioned /\ Given({"-plog"}) /\ nprocs = 2
  /\ \A p \in Procs : lmp[p].pc = "up"
  /\ lmp[1].logfile = "plog.1" /\ lmp[1].screen = NULL
  /\ lmp[0].universe.ulogfile = "log.lammps" /\ lmp[0].universe.uscreen = NULL

-----------------------------------------------------------------------------
(* C12: in a partitioned run proc 0 of world i opens as its screen the     *)
(* file <pscreen>.i if -pscreen is given (nothing if it is none), else     *)
(* <screen>.i if -screen is given (nothing if it is none), else screen.i,  *)
(* and as its logfile, by the same rule, <plog>.i, <log>.i or              *)
(* log.lammps.i; it opens no other file of its world but the input script, *)
(* and the other procs of the world open none.                             *)

\* the base name of a world stream: "none" when the stream is switched off
BaseName(part, univ, default) ==
  IF Given(part) THEN ValueOf(part)
  ELSE IF Given(univ) THEN ValueOf(univ)
  ELSE default

WorldFile(base, i) == IF base = "none" THEN NULL ELSE DotName(base, i)

\* the files of the universe: they carry no world index
UniverseNames ==
  {"log.lammps"} \cup Values(arg, {"-screen", "-sc", "-log", "-l", "-in", "-i"})

\* the files p opened for its world's screen and logfile, in order
WorldOpens(p) == SelectSeq(OpensOf(p), LAMBDA f : f \notin UniverseNames)

C12_WorldPrecedence ==
  \A p \in Started :
    Partitioned /\ Calls(p, {"MPI_Comm_split"}) # <<>> =>
      LET L == lmp[p]
          i == L.universe.iworld
          scr == WorldFile(BaseName({"-pscreen", "-ps"}, {"-screen", "-sc"}, "screen"), i)
          log == WorldFile(BaseName({"-plog", "-pl"}, {"-log", "-l"}, "log.lammps"), i)
          both == SelectSeq(<<scr, log>>, LAMBDA f : f # NULL)
      IN  IF L.me # 0
          THEN WorldOpens(p) = <<>> /\ L.screen = NULL /\ L.logfile = NULL
          ELSE /\ Returned(p) =>
                    /\ WorldOpens(p) = both
                    /\ L.screen = scr /\ L.logfile = log
               /\ Failed(p) =>
                    \E n \in 0..Len(both) :
                      /\ WorldOpens(p) = SubSeq(both, 1, n)
                      /\ IF n > 0 /\ both[n] \in unopenable
                         THEN FatalOf(p).b = (IF both[n] = scr
                                              THEN "Cannot open screen file"
                                              ELSE "Cannot open logfile")
                         ELSE /\ n = Len(both)
                              /\ FatalOf(p).b \notin {"Cannot open screen file",
                                                      "Cannot open logfile"}

C12_Witness ==
  /\ Partitioned /\ nprocs = 3
  /\ ValueOf({"-screen"}) = "scr" /\ ValueOf({"-pscreen"}) = "pscr"
  /\ \A p \in Procs : lmp[p].pc = "up"
  /\ lmp[2].universe.iworld = 1 /\ lmp[2].me = 0
  /\ lmp[2].screen = "pscr.1" /\ lmp[2].logfile = "log.lammps.1"
  /\ lmp[1].me = 1 /\ lmp[1].screen = NULL

-----------------------------------------------------------------------------
(* C13: when the constructors have returned, every stream that is not      *)
(* NULL has received the line "LAMMPS (version)" once, from proc 0 of its  *)
(* scope; in a partitioned run a universe stream has also received the     *)
(* number of partitions once and a world stream the index of its world     *)
(* once; nothing else is written and nothing is written to NULL.           *)

\* how often text was written to stream d, by all processes together
Writes(d, text) ==
  LET n[q \in -1..(nprocs - 1)] ==
        IF q = -1 THEN 0
        ELSE n[q - 1] + Len(SelectSeq(lmp[q].log,
                              LAMBDA e : e = Ev("fprintf", d, text)))
  IN  n[nprocs - 1]

RunningOn(L) ==
  "Running on " \o ToString(L.universe.nworlds) \o " partitions of processors"

PartitionIs(L) == "Processor partition = " \o ToString(L.universe.iworld)

\* the lines proc p is to write: <<stream, text>>
BannerOf(p) ==
  LET L == lmp[p]
      U == {L.universe.uscreen, L.universe.ulogfile} \ {NULL}
      W == {L.screen, L.logfile} \ {NULL}
  IN  IF ~Split(L)
      THEN IF p = 0 THEN { <<d, Version>> : d \in W } ELSE {}
      ELSE (IF p = 0
            THEN { <<d, t>> : d \in U, t \in {Version, RunningOn(L)} } ELSE {})
           \cup (IF L.me = 0
                 THEN { <<d, t>> : d \in W, t \in {Version, PartitionIs(L)} }
                 ELSE {})

C13_BannerOnce ==
  \A p \in Started :
    LET w == Calls(p, {"fprintf"}) IN
    /\ \A i \in 1..Len(w) : w[i].a # NULL
    /\ Returned(p) =>
         /\ { <<w[i].a, w[i].b>> : i \in 1..Len(w) } = BannerOf(p)
         /\ Len(w) = Cardinality(BannerOf(p))
         /\ \A x \in BannerOf(p) : Writes(x[1], x[2]) = 1
         /\ \A d \in {lmp[p].screen, lmp[p].logfile, lmp[p].universe.uscreen,
                      lmp[p].universe.ulogfile} \ {NULL} :
              Started = Procs /\ (\A q \in Procs : Returned(q)) =>
                Writes(d, Version) = 1

C13_Witness ==
  /\ Partitioned /\ nprocs = 3 /\ \A p \in Procs : lmp[p].pc = "up"
  /\ lmp[0].universe.nworlds = 2
  /\ Writes(stdout, Version) = 1 /\ Writes(stdout, "Running on 2 partitions of processors") = 1
  /\ Writes("log.lammps.1", "Processor partition = 1") = 1
  /\ lmp[1].universe.uscreen = stdout /\ Calls(1, {"fprintf"}) = <<>>

-----------------------------------------------------------------------------
(* C14: when the destructor of a process has returned, every screen or     *)
(* log file the process opened in its constructor has been closed by it    *)
(* exactly once.                                                           *)

\* the screen and log files p opened: every file but the input script
StreamsOpened(p) ==
  { OpensOf(p)[i] : i \in 1..Len(OpensOf(p)) }
    \ (unopenable \cup Values(arg, {"-in", "-i"}))

Closes(p, f) == Len(SelectSeq(lmp[p].log, LAMBDA e : e = Ev("fclose", f, "")))

C14_ClosedOnce ==
  \A p \in Started :
    lmp[p].pc = "done" => \A f \in StreamsOpened(p) : Closes(p, f) = 1

-----------------------------------------------------------------------------
(* C15: a call of init() on an instance whose subsystems are constructed   *)
(* makes the init calls of the list, each on the object its member points  *)
(* to now, whatever calls came before, and changes no member of the        *)
(* instance; so a second call right after it makes the same calls on the   *)
(* same objects again.                                                     *)

Constructed(L) ==
  \A m \in Subsystems : L[m] \notin {NULL, UNINIT, DELETED}

\* the calls of one init() on the members as they are
InitCallsOf(L) ==
  (IF L.cuda # NULL THEN <<Ev("accelerator", "cuda", L.cuda)>> ELSE <<>>)
    \o [i \in 1..Len(InitOrder) |-> Ev("init", InitOrder[i], L[InitOrder[i]])]

C15_InitRepeatable ==
  [][\A p \in Procs :
       CallInit(p) /\ Constructed(lmp[p]) =>
         /\ lmp'[p].pc = "up"
         /\ lmp'[p].log = lmp[p].log \o InitCallsOf(lmp[p])
         /\ [lmp'[p] EXCEPT !.log = lmp[p].log, !.nops = lmp[p].nops] = lmp[p]
         /\ InitCallsOf(lmp'[p]) = InitCallsOf(lmp[p])]_vars

\* init() has just run twice in a row
C15_Witness ==
  LET L == lmp[0]
      n == Len(InitCallsOf(L))
  IN  /\ L.pc = "up" /\ Constructed(L) /\ L.cuda # NULL
      /\ Len(L.log) >= 2 * n
      /\ SubSeq(L.log, Len(L.log) - n + 1, Len(L.log)) = InitCallsOf(L)
      /\ SubSeq(L.log, Len(L.log) - 2 * n + 1, Len(L.log) - n) = InitCallsOf(L)

-----------------------------------------------------------------------------
(* C16 as stated: with a -reorder after a -partition every process fails   *)
(* with the pool-wide "Cannot use -reorder after -partition" and no        *)
(* reordering is applied.                                                  *)

ReorderTokens == {"-reorder", "-r"}
PartitionTokens == {"-partition", "-p"}

ReorderLate == "Cannot use -reorder after -partition"

\* the places of the -reorder switches that follow a -partition
LateReorders ==
  { j \in 2..Len(arg) :
      arg[j] \in ReorderTokens /\ \E i \in 2..(j - 1) : arg[i] \in PartitionTokens }

\* the places of the -reorder switches that no -partition precedes
EarlyReorders ==
  { j \in 2..Len(arg) : arg[j] \in ReorderTokens } \ LateReorders

NotReordered(p) ==
  lmp[p].universe.reorderflag = 0 /\ Calls(p, {"reorder"}) = <<>>

C16_AsStated ==
  \A p \in Started :
    LateReorders # {} =>
      /\ Failed(p) /\ FatalOf(p) = Ev("fatal", "universe_all", ReorderLate)
      /\ NotReordered(p)

(* C16, amended: with a -reorder after a -partition every process fails    *)
(* with a pool-wide fatal and no reordering is applied; the fatal is       *)
(* "Cannot use -reorder after -partition" if the parser reaches that       *)
(* -reorder and two arguments follow it, and "Invalid command-line         *)
(* argument" otherwise.  A -reorder with its two arguments that no         *)
(* -partition precedes is applied, once the parser reaches it, without     *)
(* that fatal.                                                             *)

C16_ReorderFirst ==
  \A p \in Started :
    LET L == lmp[p] IN
    /\ LateReorders # {} =>
         /\ Failed(p) /\ FatalOf(p).op = "fatal" /\ FatalOf(p).a = "universe_all"
         /\ FatalOf(p).b =
              (IF (L.iarg + 1) \in LateReorders /\ L.iarg + 3 <= narg
               THEN ReorderLate ELSE "Invalid command-line argument")
         /\ NotReordered(p) /\ NoFileOpened(p)
    /\ LateReorders = {} =>
         /\ Failed(p) => FatalOf(p).b # ReorderLate
         /\ \A j \in EarlyReorders :
              j + 2 <= Len(arg) /\ L.iarg > j - 1 =>
                /\ L.universe.reorderflag = 1
                /\ Ev("reorder", arg[j + 1], arg[j + 2]) \in
                     { L.log[i] : i \in 1..Len(L.log) }

C16_Witness ==
  /\ LateReorders # {} /\ nprocs = 2
  /\ \A p \in Procs :
       /\ Failed(p) /\ FatalOf(p) = Ev("fatal", "universe_all", ReorderLate)
       /\ lmp[p].universe.nworlds = 2 /\ NotReordered(p)

\* a -reorder before the -partition was applied and the split went on
C16_WitnessEarly ==
  /\ EarlyReorders # {} /\ Partitioned /\ nprocs = 2
  /\ \A p \in Procs : lmp[p].pc = "up" /\ lmp[p].universe.reorderflag = 1

-----------------------------------------------------------------------------
(* C17 as stated: the notice "USER-CUDA mode is enabled" is emitted if and *)
(* only if an accelerated context is active after the selection, and by    *)
(* rank 0 of the pool only, once per run.                                  *)

CudaEnabled == "USER-CUDA mode is enabled"

\* the notices process p has emitted
Notices(p) ==
  SelectSeq(lmp[p].log, LAMBDA e : e.op = "message" /\ e.b = CudaEnabled)

\* the selection of lines 394-406 left an accelerated context
Accelerated(p) == cuda_exists /\ lmp[p].cudaflag # 0

C17_AsStated ==
  \A p \in Started :
    Len(Notices(p)) = (IF Returned(p) /\ Accelerated(p) /\ p = 0 THEN 1 ELSE 0)

(* C17, amended: the notice is emitted if and only if an accelerated       *)
(* context is active after the selection, once by rank 0 of every world    *)
(* (by rank 0 of the pool alone only when the pool is one world); it is    *)
(* never emitted when the accelerator was forced off or the automatic      *)
(* selection fell back, nor by a process whose startup failed.             *)

C17_NoticePerWorld ==
  \A p \in Started :
    /\ Len(Notices(p)) =
         (IF Returned(p) /\ Accelerated(p) /\ WorldRank(p) = 0 THEN 1 ELSE 0)
    /\ Returned(p) /\ (lmp[p].cudaflag = 0 \/ ~cuda_exists) => Notices(p) = <<>>
    /\ Failed(p) => Notices(p) = <<>>

C17_Witness ==
  /\ Partitioned /\ nprocs = 2 /\ cuda_exists
  /\ \A p \in Procs :
       /\ lmp[p].pc = "up" /\ lmp[p].universe.nworlds = 2 /\ lmp[p].cuda = "Cuda"
       /\ Notices(p) = <<Ev("message", "message", CudaEnabled)>>

-----------------------------------------------------------------------------
(* C18 as stated: a process that enters a collective fatal call            *)
(* (universe_all for the pool, all for its world) is joined in that call   *)
(* by every other process of the scope, and a fatal raised in a branch of  *)
(* rank 0 of the pool or of a world is process-local.                      *)

Collective == {"universe_all", "all"}
ProcessLocal == {"universe_one", "one"}

SameWorld(p, q) == lmp[p].universe.iworld = lmp[q].universe.iworld

\* the processes of the scope of the fatal call that ended p
ScopeOf(p) ==
  IF FatalOf(p).a = "universe_all" THEN Started
  ELSE { q \in Started : SameWorld(p, q) }

\* a process-local fatal is raised by rank 0 of the pool or of a world only
LocalAtRoot(p) ==
  /\ FatalOf(p).a = "universe_one" => p = 0
  /\ FatalOf(p).a = "one" => WorldRank(p) = 0

C18_AsStated ==
  \A p \in Started :
    Failed(p) =>
      /\ FatalOf(p).a \in Collective =>
           \A q \in ScopeOf(p) : Failed(q) /\ FatalOf(q) = FatalOf(p)
      /\ LocalAtRoot(p)

(* C18, amended: a process that enters a collective fatal call is joined   *)
(* in that call by every process of the scope that a process-local fatal   *)
(* has not ended before; universe_all is entered by the whole pool with    *)
(* the same message, and a process-local fatal is raised by rank 0 of the  *)
(* pool or of a world only.                                                *)

C18_CollectiveFatal ==
  \A p \in Started :
    Failed(p) =>
      /\ FatalOf(p).op = "fatal"
      /\ FatalOf(p).a \in Collective \cup ProcessLocal
      /\ FatalOf(p).a = "universe_all" =>
           \A q \in ScopeOf(p) : Failed(q) /\ FatalOf(q) = FatalOf(p)
      /\ FatalOf(p).a = "all" =>
           \A q \in ScopeOf(p) :
             /\ Failed(q)
             /\ \/ FatalOf(q) = FatalOf(p)
                \/ FatalOf(q).a \in ProcessLocal /\ LocalAtRoot(q)
      /\ LocalAtRoot(p)

\* both processes of one world have entered the same error->all
C18_Witness ==
  /\ ~Partitioned /\ nprocs = 2
  /\ \A p \in Procs :
       /\ Failed(p) /\ FatalOf(p).a = "all" /\ ScopeOf(p) = Procs
       /\ FatalOf(p) = FatalOf(0)

-----------------------------------------------------------------------------
(* C19 as stated: the lists of the subsystems that create(), init() and    *)
(* destroy() handle are permutations of one set, none holding a subsystem  *)
(* twice.                                                                  *)

\* the members on which a method that took the instance from before to
\* after called op, in the order of the calls
Handled(before, after, op) ==
  LET c == SelectSeq(SubSeq(after.log, Len(before.log) + 1, Len(after.log)),
                     LAMBDA e : e.op = op /\ e.a \in Subsystems)
  IN  [i \in 1..Len(c) |-> c[i].a]

CreateList(L) == Handled(L, create(L), "new")
InitList(L) == Handled(L, init(L), "init")
DestroyList(L) == Handled(L, destroy(L), "delete")

Range(s) == { s[i] : i \in 1..Len(s) }
NoRepeat(s) == \A i, j \in 1..Len(s) : s[i] = s[j] => i = j

C19_AsStated ==
  \A p \in Started :
    LET L == lmp[p] IN
    L.pc = "up" =>
      /\ Range(CreateList(L)) = Range(InitList(L))
      /\ Range(CreateList(L)) = Range(DestroyList(L))
      /\ NoRepeat(CreateList(L)) /\ NoRepeat(InitList(L)) /\ NoRepeat(DestroyList(L))

(* C19, amended: the lists of create() and destroy() are permutations of   *)
(* the same set of ten subsystems; the list of init() holds eight of them, *)
(* all but group and timer, which no init() ever reaches; no list holds a  *)
(* subsystem twice.                                                        *)

NotInitialized == {"group", "timer"}

C19_Lists ==
  \A p \in Started :
    LET L == lmp[p] IN
    /\ L.pc = "up" =>
         /\ Range(CreateList(L)) = Subsystems
         /\ Range(DestroyList(L)) = Subsystems
         /\ Range(InitList(L)) = Subsystems \ NotInitialized
         /\ NoRepeat(CreateList(L)) /\ NoRepeat(InitList(L)) /\ NoRepeat(DestroyList(L))
    /\ \A i \in 1..Len(L.log) : L.log[i].op = "init" => L.log[i].a \notin NotInitialized
    /\ Range(SubsystemCalls(p, {"init"})) \subseteq Range(SubsystemCalls(p, {"new"}))
    /\ Range(SubsystemCalls(p, {"delete"})) \subseteq Range(SubsystemCalls(p, {"new"}))

\* the instance was created, initialized and destroyed: group and timer were
\* built and deleted and never initialized
C19_Witness ==
  LET L == lmp[0] IN
  /\ L.pc = "up" /\ NoMisuse(0)
  /\ Range(SubsystemCalls(0, {"new"})) = Subsystems
  /\ Range(SubsystemCalls(0, {"delete"})) = Subsystems
  /\ Range(SubsystemCalls(0, {"init"})) = Subsystems \ NotInitialized

-----------------------------------------------------------------------------
(* C20: whatever sequence of create(), init() and destroy() follows the    *)
(* startup, init() never reaches a subsystem that was destroyed and not    *)
(* built again, and no subsystem is deleted twice without a create() in    *)
(* between.                                                                *)

\* the calls of p that reached a subsystem that was not constructed
NotConstructedCalls(p) ==
  { i \in 1..Len(lmp[p].log) :
      /\ lmp[p].log[i].a \in Subsystems
      /\ \/ lmp[p].log[i].op = "init" /\ lmp[p].log[i].b \in {DELETED, UNINIT, NULL}
         \/ lmp[p].log[i].op = "delete" /\ lmp[p].log[i].b \in {DELETED, UNINIT} }

C20_ConstructedOnly ==
  \A p \in Started : NotConstructedCalls(p) = {}

-----------------------------------------------------------------------------
(* C21: in every run of the constructor, followed or not by the            *)
(* destructor, the lifetime of the subsystems lies inside that of the      *)
(* Universe and of the accelerator selection: the first subsystem is built *)
(* after the validation, the streams and the accelerator decision, every   *)
(* slot is built once and deleted once, and the destructor deletes input,  *)
(* cuda, universe, error and memory only after destroy() has deleted every *)
(* subsystem.                                                              *)

\* the places in the log of p of the calls op on the members of S
PlacesOf(p, op, S) ==
  { i \in 1..Len(lmp[p].log) : lmp[p].log[i].op = op /\ lmp[p].log[i].a \in S }

\* what startup does before it allocates the top-level classes
StartupEvent(e) ==
  \/ e.op \in {"fopen", "fatal", "warning", "message", "reorder"}
  \/ e.op = "new" /\ e.a \in {"memory", "error", "universe", "cuda"}

Fundamental == {"input", "cuda", "universe", "error", "memory"}

-----------------------------------------------------------------------------
(* C22: every destroy(), called by the driver or by the destructor, leaves *)
(* the modify slot NULL, and in the destructor it is still NULL when input *)
(* is deleted and at the end; until the first create() the output slot is  *)
(* NULL.                                                                   *)

\* no create() has run on p yet
BeforeCreate(p) == PlacesOf(p, "new", Subsystems) = {}

\* the instance as the destructor has it when it deletes input (line 461)
AtDeleteInput(L) == FreeWorld(CloseFiles(Delete(destroy(L), "citeme", L.citeme)))

C22_ModifyAbsent ==
  [][\A p \in Procs :
       /\ CallDestroy(p) /\ lmp'[p].pc # "crashed" =>
            lmp'[p].modify = NULL /\ lmp'[p].pc = "up"
       /\ Shutdown(p) /\ lmp'[p].pc # "crashed" =>
            /\ destroy(lmp[p]).modify = NULL
            /\ AtDeleteInput(lmp[p]).modify = NULL
            /\ lmp'[p].modify = NULL /\ lmp'[p].pc = "done"
            /\ \A i \in PlacesOf(p, "delete", {"input"})', j \in PlacesOf(p, "delete", {"modify"})' :
                 j < i
       /\ BeforeCreate(p) => lmp[p].output = NULL
       /\ BeforeCreate(p)' => lmp'[p].output = NULL]_vars

\* the driver destroyed and rebuilt the subsystems, and the destructor ran
C22_Witness ==
  LET L == lmp[0] IN
  /\ L.pc = "done" /\ NoMisuse(0) /\ L.modify = NULL
  /\ Cardinality(PlacesOf(0, "delete", {"modify"})) = 2
  /\ PlacesOf(0, "delete", {"input"}) # {}

-----------------------------------------------------------------------------
(* C23: the destructor frees the world communicator of a process if and    *)
(* only if the constructor got it from MPI_Comm_split(), which it does in  *)
(* every -partition run, one of a single declared world included; the      *)
(* communicator of the pool is never freed, a split one is freed once,     *)
(* and nothing is freed before the destructor.                             *)

Frees(p) == Calls(p, {"MPI_Comm_free"})
Splits(p) == Calls(p, {"MPI_Comm_split"})

C23_WorldFreed ==
  \A p \in Started :
    LET L == lmp[p] IN
    /\ \A i \in 1..Len(Frees(p)) : Frees(p)[i].a # L.universe.uworld
    /\ L.pc # "done" => Frees(p) = <<>>
    /\ Returned(p) => Len(Splits(p)) = (IF Partitioned THEN 1 ELSE 0)
    /\ L.pc = "done" =>
         /\ Len(Frees(p)) = Len(Splits(p))
         /\ Partitioned => Frees(p) = <<Ev("MPI_Comm_free", Splits(p)[1].b, "")>>
                           /\ Splits(p)[1].b = L.world
         /\ ~Partitioned => L.world = L.universe.uworld

\* a run of one declared world has freed the communicator it split off
C23_Witness ==
  /\ Partitioned /\ nprocs = 2
  /\ \A p \in Procs :
       /\ lmp[p].pc = "done" /\ lmp[p].universe.nworlds = 1
       /\ Frees(p) = <<Ev("MPI_Comm_free", "world.0", "")>>

-----------------------------------------------------------------------------
(* C24 as stated: the directive of the suffix is issued once in a run,     *)
(* after create() has built every subsystem and before any init(): for     *)
(* gpu "package gpu force/neigh 0 0 1", for omp "package omp *", and none  *)
(* for another suffix or without one.                                      *)

SuffixGiven == ValueOf({"-suffix", "-sf"})

\* the directive of the suffix of the argument vector
DirectiveOf ==
  IF SuffixGiven = "gpu" THEN <<Ev("input_one", "input", "package gpu force/neigh 0 0 1")>>
  ELSE IF SuffixGiven = "omp" THEN <<Ev("input_one", "input", "package omp *")>>
  ELSE <<>>

Directives(p) == Calls(p, {"input_one"})

\* the first directive of p follows a whole create() and precedes every init()
FirstDirectiveInPlace(p) ==
  \A i \in PlacesOf(p, "input_one", {"input"}) :
    (\A k \in PlacesOf(p, "input_one", {"input"}) : i <= k) =>
      /\ Cardinality({ j \in PlacesOf(p, "new", Subsystems) : j < i }) = Cardinality(Subsystems)
      /\ \A j \in PlacesOf(p, "init", Subsystems) : i < j

C24_AsStated ==
  \A p \in Started :
    Returned(p) => Directives(p) = DirectiveOf /\ FirstDirectiveInPlace(p)

(* C24, amended: every call of post_create() issues the directive of the   *)
(* suffix once: "package gpu force/neigh 0 0 1" for gpu, "package omp *"   *)
(* for omp, none for another suffix or without one.  The constructor calls *)
(* it once, after create() has built every subsystem and before any        *)
(* init(); every later call by the driver issues the directive again, and  *)
(* no other operation issues one.                                          *)

C24_Directive ==
  [][\A p \in Procs :
       /\ Start(p) /\ Returned(p)' =>
            Directives(p)' = DirectiveOf /\ FirstDirectiveInPlace(p)'
       /\ Start(p) /\ ~Returned(p)' => Directives(p)' = <<>>
       /\ CallPostCreate(p) =>
            /\ lmp'[p].log = lmp[p].log \o DirectiveOf
            /\ [lmp'[p] EXCEPT !.log = lmp[p].log, !.nops = lmp[p].nops] = lmp[p]
            /\ FirstDirectiveInPlace(p)'
       /\ CallCreate(p) \/ CallInit(p) \/ CallDestroy(p) \/ Shutdown(p) =>
            Directives(p)' = Directives(p)]_vars

\* the constructor, and a post_create() that followed a destroy() and a
\* create(), have each issued the directive
C24_Witness ==
  /\ SuffixGiven = "gpu" /\ lmp[0].pc = "up" /\ NoMisuse(0)
  /\ Directives(0) = DirectiveOf \o DirectiveOf
  /\ Cardinality(PlacesOf(0, "new", Subsystems)) = 20
  /\ Cardinality(PlacesOf(0, "delete", Subsystems)) = 10

====
